---- MODULE Spec2Model ----
(***************************************************************************)
(* Model of starplug.py: an lldb script that waits for StarCraft to        *)
(* launch, runs it to a one-shot breakpoint on CGBitmapContextCreate,      *)
(* reads the __text section, finds a 7-byte instruction by literal search, *)
(* breaks on it with a scripted callback that prints EBX and returns       *)
(* False, and continues the process.  The debugger is synchronous          *)
(* (SetAsync(False)): process.Continue() blocks until the process stops    *)
(* or exits.  The target process and the lldb backend are the environment: *)
(* their outcomes are chosen nondeterministically.                         *)
(***************************************************************************)
EXTENDS Integers, Sequences, FiniteSets, TLC

VARIABLES
    pc,                     \* line of the script that runs next
    error,                  \* the script's SBError: "success" or "fail"
    exc,                    \* exception that ended the script, or "none"
    trace,                  \* the script's API calls so far, in order
    proc,                   \* target process: absent/running/stopped/exited
    attached,               \* the script holds the process it attached to
    stopReason,             \* why the process last stopped
    unpacked,               \* target has unpacked its own code
    image,                  \* the unpacked contents of __text
    gateCalls,              \* calls of CGBitmapContextCreate not halted
    init_bp,                \* gating breakpoint: none/armed/fired
    initBpHits,             \* times the gating breakpoint halted the target
    executable_module,      \* unset/valid/invalid
    code_section,           \* unset/valid/invalid
    code_start,             \* load address of __text as the script got it
    code_bytes,             \* bytes the script read
    offset_from_code_start, \* result of code_bytes.index(...)
    bp,                     \* address of the trap breakpoint, or NoBp
    bpCallback,             \* the callback body is attached to bp
    inflight,               \* frames of the hits whose callback is due
    hits,                   \* EBX at each trap hit (NoReg: frame has no ebx)
    stdout                  \* the values printed after 'APM:'

vars == <<pc, error, exc, trace, proc, attached, stopReason, unpacked, image, gateCalls,
          init_bp, initBpHits, executable_module, code_section, code_start,
          code_bytes, offset_from_code_start, bp, bpCallback, inflight, hits,
          stdout>>

\* ---------------------------------------------------------------- bounds
MaxChunks == 3
MaxHits == 3
MaxGateCalls == 1

\* ------------------------------------------------------------- constants
\* b'\x89\x9C\x88\xDC\x00\x00\x00'
Signature == <<137, 156, 136, 220, 0, 0, 0>>

CodeBase == 4096
InvalidAddress == 0 - 1
NoBp == 0 - 2
NoOffset == 0 - 3
NoReg == 0 - 1

\* Pieces the modelled __text images are assembled from: the instruction
\* itself, a proper prefix of it, and a byte that pads it.
Chunks == {Signature, <<137, 156, 136>>, <<0>>}

RECURSIVE BuffersOf(_)
BuffersOf(n) ==
    IF n = 0 THEN {<<>>}
    ELSE LET P == BuffersOf(n - 1) IN P \cup {b \o c : b \in P, c \in Chunks}

Buffers == BuffersOf(MaxChunks)

\* EBX values the target may hold at a hit
EbxValues == {5, 12}

\* ------------------------------------------------------- pure functions
\* bytes.index(sub): scan upwards from position 0, ValueError when absent
RECURSIVE IndexFrom(_, _, _)
IndexFrom(B, S, i) ==
    IF i + Len(S) > Len(B) THEN [raised |-> TRUE, value |-> 0]
    ELSE IF SubSeq(B, i + 1, i + Len(S)) = S THEN [raised |-> FALSE, value |-> i]
    ELSE IndexFrom(B, S, i + 1)

\* bytes.rindex: the last occurrence instead of the first
RECURSIVE LastIndexFrom(_, _, _)
LastIndexFrom(B, S, i) ==
    IF i < 0 THEN [raised |-> TRUE, value |-> 0]
    ELSE IF SubSeq(B, i + 1, i + Len(S)) = S THEN [raised |-> FALSE, value |-> i]
    ELSE LastIndexFrom(B, S, i - 1)

index_last(B, S) == LastIndexFrom(B, S, Len(B) - Len(S))

\* bytes.find: -1 instead of ValueError when absent
index_find(B, S) ==
    LET r == IndexFrom(B, S, 0)
    IN  IF r.raised THEN [raised |-> FALSE, value |-> 0 - 1] ELSE r

index(B, S) == IndexFrom(B, S, 0)

\* Contents of __text before the target has unpacked itself
Packed(img) == [i \in 1..Len(img) |-> 0]

TextMemory == IF unpacked THEN image ELSE Packed(image)

HexDigits == <<"0", "1", "2", "3", "4", "5", "6", "7",
               "8", "9", "a", "b", "c", "d", "e", "f">>

DigitValue(c) == CHOOSE d \in 0..15 : HexDigits[d + 1] = c

\* lldb renders a 32-bit register as 0x followed by eight hex digits
RECURSIVE HexOf(_, _)
HexOf(n, width) ==
    IF width = 0 THEN <<>>
    ELSE HexOf(n \div 16, width - 1) \o <<HexDigits[(n % 16) + 1]>>

RegisterString(n) == <<"0", "x">> \o HexOf(n, 8)

RECURSIVE ParseDigits(_, _, _)
ParseDigits(s, base, acc) ==
    IF s = <<>> THEN acc
    ELSE ParseDigits(Tail(s), base, acc * base + DigitValue(Head(s)))

\* int(s, 0): the base is taken from the literal's prefix
IntBase0(s) ==
    IF Len(s) > 2 /\ SubSeq(s, 1, 2) = <<"0", "x">>
    THEN ParseDigits(SubSeq(s, 3, Len(s)), 16, 0)
    ELSE ParseDigits(s, 10, 0)

\* frame.registers of the thread that hit the breakpoint
FrameRegisters(ebx) ==
    IF ebx = NoReg THEN <<>>
    ELSE << [name |-> "General Purpose Registers",
             children |-> << [name |-> "rax", value |-> RegisterString(1)],
                             [name |-> "ebx", value |-> RegisterString(ebx)] >>],
            [name |-> "Floating Point Registers",
             children |-> << [name |-> "fctrl", value |-> RegisterString(895)] >>] >>

\* inner loop of the callback: the registers of one group
RECURSIVE ScanChildren(_)
ScanChildren(children) ==
    IF children = <<>> THEN <<>>
    ELSE (IF Head(children).name = "ebx"
          THEN <<IntBase0(Head(children).value)>> ELSE <<>>)
         \o ScanChildren(Tail(children))

\* outer loop of the callback: what it prints for one frame
RECURSIVE ScanGroups(_)
ScanGroups(groups) ==
    IF groups = <<>> THEN <<>>
    ELSE (IF Head(groups).name = "General Purpose Registers"
          THEN ScanChildren(Head(groups).children) ELSE <<>>)
         \o ScanGroups(Tail(groups))

\* ------------------------------------------------------------------ Init
Init ==
    /\ pc = "l31"
    /\ error = "success"
    /\ exc = "none"
    /\ trace = <<>>
    /\ proc = "absent"
    /\ attached = FALSE
    /\ stopReason = "none"
    /\ unpacked = FALSE
    /\ image \in Buffers
    /\ gateCalls = 0
    /\ init_bp = "none"
    /\ initBpHits = 0
    /\ executable_module = "unset"
    /\ code_section = "unset"
    /\ code_start = InvalidAddress
    /\ code_bytes = <<>>
    /\ offset_from_code_start = NoOffset
    /\ bp = NoBp
    /\ bpCallback = FALSE
    /\ inflight = <<>>
    /\ hits = <<>>
    /\ stdout = <<>>

scriptVars == <<pc, error, exc, trace, attached, init_bp, executable_module, code_section,
                code_start, code_bytes, offset_from_code_start, bp, bpCallback>>

\* ------------------------------------------------------------ the target
Launch ==
    /\ proc = "absent"
    /\ proc' = "running"
    /\ UNCHANGED <<scriptVars, stopReason, unpacked, image, gateCalls,
                   initBpHits, inflight, hits, stdout>>

Unpack ==
    /\ proc = "running"
    /\ ~unpacked
    /\ unpacked' = TRUE
    /\ UNCHANGED <<scriptVars, proc, stopReason, image, gateCalls,
                   initBpHits, inflight, hits, stdout>>

\* The target calls CGBitmapContextCreate; an armed one-shot breakpoint
\* halts it there and is then gone.
CallGate ==
    /\ proc = "running"
    /\ unpacked
    /\ IF init_bp = "armed"
       THEN /\ proc' = "stopped"
            /\ stopReason' = "init_bp"
            /\ init_bp' = "fired"
            /\ initBpHits' = initBpHits + 1
            /\ UNCHANGED gateCalls
       ELSE /\ gateCalls < MaxGateCalls
            /\ gateCalls' = gateCalls + 1
            /\ UNCHANGED <<proc, stopReason, init_bp, initBpHits>>
    /\ UNCHANGED <<pc, error, exc, trace, attached, executable_module,
                   code_section, code_start, code_bytes,
                   offset_from_code_start, bp, bpCallback, unpacked, image,
                   inflight, hits, stdout>>

\* The target stops for a reason that is no breakpoint of the script
Signal ==
    /\ proc = "running"
    /\ pc \in {"l38w", "l64w"}
    /\ proc' = "stopped"
    /\ stopReason' = "signal"
    /\ UNCHANGED <<scriptVars, unpacked, image, gateCalls, initBpHits,
                   inflight, hits, stdout>>

Exit ==
    /\ proc = "running"
    /\ proc' = "exited"
    /\ stopReason' = "exit"
    /\ UNCHANGED <<scriptVars, unpacked, image, gateCalls, initBpHits,
                   inflight, hits, stdout>>

\* a hit that leaves the target running while its callback is due
TrapHit_async ==
    /\ proc = "running"
    /\ unpacked
    /\ bp # NoBp
    /\ bpCallback
    /\ Len(hits) < MaxHits
    /\ \E ebx \in EbxValues \cup {NoReg} :
          /\ hits' = Append(hits, ebx)
          /\ inflight' = Append(inflight, FrameRegisters(ebx))
    /\ UNCHANGED <<scriptVars, proc, stopReason, unpacked, image, gateCalls,
                   initBpHits, stdout>>

\* The target executes the instruction the trap breakpoint sits on; it is
\* halted there (synchronous mode, line 28) until the callback has run
TrapHit ==
    /\ proc = "running"
    /\ unpacked
    /\ bp # NoBp
    /\ bpCallback
    /\ Len(hits) < MaxHits
    /\ \E ebx \in EbxValues \cup {NoReg} :
          /\ hits' = Append(hits, ebx)
          /\ inflight' = Append(inflight, FrameRegisters(ebx))
    /\ proc' = "stopped"
    /\ stopReason' = "trap"
    /\ UNCHANGED <<scriptVars, unpacked, image, gateCalls, initBpHits, stdout>>

\* a callback that halts the target when it finds no ebx
Callback_halts ==
    /\ inflight # <<>>
    /\ stdout' = stdout \o ScanGroups(inflight[1])
    /\ inflight' = Tail(inflight)
    /\ IF ScanGroups(inflight[1]) = <<>>
       THEN UNCHANGED <<proc, stopReason>>
       ELSE proc' = "running" /\ stopReason' = "none"
    /\ UNCHANGED <<scriptVars, unpacked, image, gateCalls, initBpHits, hits>>

\* a callback that prints a value only when it differs from the last one
Callback_dedup ==
    /\ inflight # <<>>
    /\ LET out == ScanGroups(inflight[1])
       IN  stdout' = IF stdout # <<>> /\ out = <<stdout[Len(stdout)]>>
                     THEN stdout ELSE stdout \o out
    /\ inflight' = Tail(inflight)
    /\ proc' = "running"
    /\ stopReason' = "none"
    /\ UNCHANGED <<scriptVars, unpacked, image, gateCalls, initBpHits, hits>>

\* a callback that prints a placeholder when it finds no ebx
Callback_placeholder ==
    /\ inflight # <<>>
    /\ LET out == ScanGroups(inflight[1])
       IN  stdout' = stdout \o (IF out = <<>> THEN <<0>> ELSE out)
    /\ inflight' = Tail(inflight)
    /\ proc' = "running"
    /\ stopReason' = "none"
    /\ UNCHANGED <<scriptVars, unpacked, image, gateCalls, initBpHits, hits>>

\* a callback whose output depends on how many values it printed before
Callback_accumulate ==
    /\ inflight # <<>>
    /\ LET out == ScanGroups(inflight[1])
       IN  stdout' = stdout \o [i \in 1..Len(out) |-> out[i] + Len(stdout)]
    /\ inflight' = Tail(inflight)
    /\ proc' = "running"
    /\ stopReason' = "none"
    /\ UNCHANGED <<scriptVars, unpacked, image, gateCalls, initBpHits, hits>>

\* a callback that removes its breakpoint after the first hit
Callback_oneshot ==
    /\ inflight # <<>>
    /\ stdout' = stdout \o ScanGroups(inflight[1])
    /\ inflight' = Tail(inflight)
    /\ proc' = "running"
    /\ stopReason' = "none"
    /\ bp' = NoBp
    /\ bpCallback' = FALSE
    /\ UNCHANGED <<pc, error, exc, trace, attached, init_bp, executable_module,
                   code_section, code_start, code_bytes,
                   offset_from_code_start, unpacked, image, gateCalls,
                   initBpHits, hits>>

\* The callback body of lines 55-60; returning False makes lldb resume
Callback ==
    /\ inflight # <<>>
    /\ stdout' = stdout \o ScanGroups(inflight[1])
    /\ inflight' = Tail(inflight)
    /\ proc' = "running"
    /\ stopReason' = "none"
    /\ UNCHANGED <<scriptVars, unpacked, image, gateCalls, initBpHits, hits>>


\* ------------------------------------------------------------ the script
tgtVars == <<unpacked, image, gateCalls, initBpHits, inflight, hits, stdout>>

Abort(kind) ==
    /\ pc' = "aborted"
    /\ exc' = kind

\* an attach whose error is not asserted
Attach_unchecked ==
    /\ pc = "l31"
    /\ proc = "running"
    /\ trace' = Append(trace, "Attach")
    /\ \E ok \in BOOLEAN :
          IF ok
          THEN /\ error' = "success"
               /\ attached' = TRUE
               /\ proc' = "stopped"
               /\ stopReason' = "attach"
          ELSE /\ error' = "fail"
               /\ UNCHANGED <<proc, attached, stopReason>>
    /\ pc' = "l36"
    /\ UNCHANGED <<tgtVars, exc, init_bp, executable_module, code_section,
                   code_start, code_bytes, offset_from_code_start, bp,
                   bpCallback>>

\* line 31-32: AttachToProcessWithName(..., 'StarCraft', True, error) waits
\* for the process to appear; the attach leaves it halted
Attach ==
    /\ pc = "l31"
    /\ proc = "running"
    /\ trace' = Append(trace, "Attach")
    /\ \E ok \in BOOLEAN :
          IF ok
          THEN /\ error' = "success"
               /\ attached' = TRUE
               /\ proc' = "stopped"
               /\ stopReason' = "attach"
               /\ pc' = "l36"
               /\ UNCHANGED exc
          ELSE /\ error' = "fail"
               /\ Abort("AssertionError")
               /\ UNCHANGED <<proc, attached, stopReason>>
    /\ UNCHANGED <<tgtVars, init_bp, executable_module, code_section,
                   code_start, code_bytes, offset_from_code_start, bp,
                   bpCallback>>

\* line 36-37: BreakpointCreateByName('CGBitmapContextCreate'), SetOneShot
CreateInitBp ==
    /\ pc = "l36"
    /\ trace' = Append(trace, "CreateInitBp")
    /\ init_bp' = "armed"
    /\ pc' = "l38"
    /\ UNCHANGED <<tgtVars, attached, proc, stopReason, error, exc, executable_module,
                   code_section, code_start, code_bytes,
                   offset_from_code_start, bp, bpCallback>>

\* process.Continue() and the assert after it: the resume is refused when
\* the process is not halted, and may be refused by the backend otherwise
Continue(from, waiting, step) ==
    /\ pc = from
    /\ trace' = Append(trace, step)
    /\ \E ok \in BOOLEAN :
          IF ok /\ proc = "stopped"
          THEN /\ error' = "success"
               /\ proc' = "running"
               /\ stopReason' = "none"
               /\ pc' = waiting
               /\ UNCHANGED exc
          ELSE /\ error' = "fail"
               /\ Abort("AssertionError")
               /\ UNCHANGED <<proc, stopReason>>
    /\ UNCHANGED <<tgtVars, attached, init_bp, executable_module, code_section,
                   code_start, code_bytes, offset_from_code_start, bp,
                   bpCallback>>

\* the blocking Continue() returns once the process has halted with no
\* callback due, or has exited; the resume itself had succeeded
Returns(waiting, to) ==
    /\ pc = waiting
    /\ proc \in {"stopped", "exited"}
    /\ inflight = <<>>
    /\ pc' = to
    /\ UNCHANGED <<tgtVars, attached, proc, stopReason, error, exc, trace, init_bp,
                   executable_module, code_section, code_start, code_bytes,
                   offset_from_code_start, bp, bpCallback>>

\* line 38-39
GateContinue == Continue("l38", "l38w", "GateContinue")

\* a Continue() that returns while the process is still running
GateReturn_async ==
    /\ pc = "l38w"
    /\ pc' = "l43"
    /\ UNCHANGED <<tgtVars, proc, stopReason, error, exc, trace, attached,
                   init_bp, executable_module, code_section, code_start,
                   code_bytes, offset_from_code_start, bp, bpCallback>>

GateReturn == Returns("l38w", "l43")

\* line 43: target.FindModule(target.executable); the result is not checked
FindModule ==
    /\ pc = "l43"
    /\ trace' = Append(trace, "FindModule")
    /\ \E ok \in BOOLEAN :
          executable_module' = IF ok THEN "valid" ELSE "invalid"
    /\ pc' = "l44"
    /\ UNCHANGED <<tgtVars, attached, proc, stopReason, error, exc, init_bp,
                   code_section, code_start, code_bytes,
                   offset_from_code_start, bp, bpCallback>>

\* line 44: executable_module.FindSection('__text'); not checked either
FindSection ==
    /\ pc = "l44"
    /\ trace' = Append(trace, "FindSection")
    /\ \E ok \in BOOLEAN :
          code_section' = IF ok /\ executable_module = "valid"
                          THEN "valid" ELSE "invalid"
    /\ pc' = "l45"
    /\ UNCHANGED <<tgtVars, attached, proc, stopReason, error, exc, init_bp,
                   executable_module, code_start, code_bytes,
                   offset_from_code_start, bp, bpCallback>>

\* line 45: code_section.addr.GetLoadAddress(target)
GetLoadAddress ==
    /\ pc = "l45"
    /\ trace' = Append(trace, "GetLoadAddress")
    /\ code_start' = IF code_section = "valid" /\ proc = "stopped"
                     THEN CodeBase ELSE InvalidAddress
    /\ pc' = "l46"
    /\ UNCHANGED <<tgtVars, attached, proc, stopReason, error, exc, init_bp,
                   executable_module, code_section, code_bytes,
                   offset_from_code_start, bp, bpCallback>>

\* code_section.size
SectionSize == IF code_section = "valid" THEN Len(image) ELSE 0

\* the process is halted and the section is mapped: memory can be read
Readable ==
    /\ proc = "stopped"
    /\ code_start # InvalidAddress
    /\ SectionSize > 0

\* a read that reports success although it stopped short
ReadMemory_shortok ==
    /\ pc = "l46"
    /\ trace' = Append(trace, "ReadMemory")
    /\ \E n \in 0..SectionSize :
          IF Readable /\ n > 0
          THEN /\ error' = "success"
               /\ code_bytes' = SubSeq(TextMemory, 1, n)
               /\ pc' = "l50"
               /\ UNCHANGED exc
          ELSE /\ error' = "fail"
               /\ code_bytes' = <<>>
               /\ Abort("AssertionError")
    /\ UNCHANGED <<tgtVars, attached, proc, stopReason, init_bp, executable_module,
                   code_section, code_start, offset_from_code_start, bp,
                   bpCallback>>

\* a read whose error is not asserted
ReadMemory_unchecked ==
    /\ pc = "l46"
    /\ trace' = Append(trace, "ReadMemory")
    /\ \E n \in 0..SectionSize :
          IF Readable /\ n = SectionSize
          THEN /\ error' = "success"
               /\ code_bytes' = SubSeq(TextMemory, 1, n)
          ELSE /\ error' = "fail"
               /\ code_bytes' = IF Readable THEN SubSeq(TextMemory, 1, n)
                                ELSE <<>>
    /\ pc' = "l50"
    /\ UNCHANGED <<tgtVars, attached, exc, proc, stopReason, init_bp, executable_module,
                   code_section, code_start, offset_from_code_start, bp,
                   bpCallback>>

\* line 46-47: process.ReadMemory(code_start, code_section.size, error):
\* the backend hands back the n bytes it could read and sets the error
\* unless it read them all
ReadMemory ==
    /\ pc = "l46"
    /\ trace' = Append(trace, "ReadMemory")
    /\ \E n \in 0..SectionSize :
          IF Readable /\ n = SectionSize
          THEN /\ error' = "success"
               /\ code_bytes' = SubSeq(TextMemory, 1, n)
               /\ pc' = "l50"
               /\ UNCHANGED exc
          ELSE /\ error' = "fail"
               /\ code_bytes' = IF Readable THEN SubSeq(TextMemory, 1, n)
                                ELSE <<>>
               /\ Abort("AssertionError")
    /\ UNCHANGED <<tgtVars, attached, proc, stopReason, init_bp, executable_module,
                   code_section, code_start, offset_from_code_start, bp,
                   bpCallback>>

\* line 50: code_bytes.index(signature) raises ValueError when absent
Index ==
    /\ pc = "l50"
    /\ trace' = Append(trace, "Index")
    /\ LET r == index(code_bytes, Signature) IN
          IF r.raised
          THEN /\ Abort("ValueError")
               /\ UNCHANGED offset_from_code_start
          ELSE /\ offset_from_code_start' = r.value
               /\ pc' = "l53"
               /\ UNCHANGED exc
    /\ UNCHANGED <<tgtVars, attached, proc, stopReason, error, init_bp,
                   executable_module, code_section, code_start, code_bytes,
                   bp, bpCallback>>

\* line 53: BreakpointCreateByAddress(code_start + offset_from_code_start)
CreateBp ==
    /\ pc = "l53"
    /\ trace' = Append(trace, "CreateBp")
    /\ bp' = code_start + offset_from_code_start
    /\ pc' = "l54"
    /\ UNCHANGED <<tgtVars, attached, proc, stopReason, error, exc, init_bp,
                   executable_module, code_section, code_start, code_bytes,
                   offset_from_code_start, bpCallback>>

\* line 54-62: bp.SetScriptCallbackBody(...) and the assert after it
SetCallback ==
    /\ pc = "l54"
    /\ trace' = Append(trace, "SetCallback")
    /\ \E ok \in BOOLEAN :
          IF ok
          THEN /\ error' = "success"
               /\ bpCallback' = TRUE
               /\ pc' = "l64"
               /\ UNCHANGED exc
          ELSE /\ error' = "fail"
               /\ Abort("AssertionError")
               /\ UNCHANGED bpCallback
    /\ UNCHANGED <<tgtVars, attached, proc, stopReason, init_bp, executable_module,
                   code_section, code_start, code_bytes,
                   offset_from_code_start, bp>>

\* line 64-65
TrapContinue == Continue("l64", "l64w", "TrapContinue")

\* a loop that issues the resume again when the blocking one returns
TrapReturn_retry == Returns("l64w", "l64")

\* the script ends after line 65
TrapReturn == Returns("l64w", "done")

Next ==
    \/ Launch \/ Unpack \/ CallGate \/ Signal \/ Exit \/ TrapHit \/ Callback
    \/ Attach \/ CreateInitBp \/ GateContinue \/ GateReturn
    \/ FindModule \/ FindSection \/ GetLoadAddress \/ ReadMemory \/ Index
    \/ CreateBp \/ SetCallback \/ TrapContinue \/ TrapReturn

Spec == Init /\ [][Next]_vars

TypeOK ==
    /\ pc \in {"l31", "l36", "l38", "l38w", "l43", "l44", "l45", "l46", "l50",
               "l53", "l54", "l64", "l64w", "done", "aborted"}
    /\ error \in {"success", "fail"}
    /\ exc \in {"none", "AssertionError", "ValueError"}
    /\ proc \in {"absent", "running", "stopped", "exited"}
    /\ attached \in BOOLEAN
    /\ init_bp \in {"none", "armed", "fired"}
    /\ Len(hits) <= MaxHits


\* ---------------------------------------------------------------- claims
Ran(step) == \E i \in 1..Len(trace) : trace[i] = step

Count(step) == Cardinality({i \in 1..Len(trace) : trace[i] = step})

MatchAt(B, k) == SubSeq(B, k + 1, k + Len(Signature)) = Signature

Occurs(B) == \E k \in 0..(Len(B) - Len(Signature)) : MatchAt(B, k)

\* the hits whose callback has run
Completed == SubSeq(hits, 1, Len(hits) - Len(inflight))

StepOrder == <<"Attach", "CreateInitBp", "GateContinue", "FindModule",
               "FindSection", "GetLoadAddress", "ReadMemory", "Index",
               "CreateBp", "SetCallback", "TrapContinue">>

FallibleSteps == {"Attach", "GateContinue", "ReadMemory", "Index",
                  "SetCallback", "TrapContinue"}

FairSpec == Spec /\ WF_vars(Callback)

\* C1: the trap breakpoint is installed only after the gating breakpoint
\* has fired exactly once, whatever made the first Continue() return.
C1_TrapOnlyAfterGate == bp # NoBp => initBpHits = 1

\* C2: every trap hit is followed by a resume: the callback, whether or not
\* it finds ebx, ends with the target running, and the target is never
\* halted at the trap with no callback due.
C2_HitAlwaysResumed ==
    /\ []((proc = "stopped" /\ stopReason = "trap")
             => (inflight # <<>> /\ pc = "l64w"))
    /\ [][(inflight # <<>> /\ inflight' = <<>>) => proc' = "running"]_vars
    /\ ((inflight # <<>>) ~> (inflight = <<>> /\ proc # "stopped"))

C2_Witness ==
    /\ Len(hits) >= 2 /\ inflight = <<>> /\ proc = "running"
    /\ hits[1] = NoReg /\ hits[2] # NoReg

\* C3: when the signature occurs in the bytes read, index yields its lowest
\* occurrence, the bytes at that offset are the signature, and the trap
\* breakpoint is put at code_start + offset.
C3_FirstOccurrence ==
    (Ran("Index") /\ Occurs(code_bytes)) =>
        /\ exc # "ValueError"
        /\ offset_from_code_start >= 0
        /\ MatchAt(code_bytes, offset_from_code_start)
        /\ \A k \in 0..(offset_from_code_start - 1) : ~MatchAt(code_bytes, k)
        /\ Ran("CreateBp") => bp = CodeBase + offset_from_code_start

C3_Witness ==
    /\ bp # NoBp
    /\ offset_from_code_start > 0
    /\ \E k \in (offset_from_code_start + 1)..(Len(code_bytes) - Len(Signature)) :
          MatchAt(code_bytes, k)

\* C4: when the signature does not occur in the bytes read, the search
\* raises, no offset or address is computed, no trap breakpoint is created
\* and the second Continue() is never issued.
C4_AbsentSignatureStops ==
    (Ran("Index") /\ ~Occurs(code_bytes)) =>
        /\ pc = "aborted"
        /\ exc = "ValueError"
        /\ offset_from_code_start = NoOffset
        /\ bp = NoBp
        /\ ~Ran("CreateBp") /\ ~Ran("SetCallback") /\ ~Ran("TrapContinue")

C4_Witness ==
    /\ exc = "ValueError"
    /\ unpacked
    /\ Len(code_bytes) >= Len(Signature)
    /\ SubSeq(code_bytes, 1, 3) = SubSeq(Signature, 1, 3)

C6_EndsOnlyOnExit == pc = "done" => proc = "exited"

\* C7: when the target exits while the script is blocked in the second
\* Continue(), the script ends: no exception, no callback run or value
\* printed for the exit, and no second resume.
C7_ExitEndsLoop ==
    /\ [][(pc = "l64w" /\ proc = "exited") =>
             (pc' = "done" /\ UNCHANGED <<exc, error, trace, stdout, hits,
                                          inflight, proc>>)]_vars
    /\ []((pc = "done" /\ proc = "exited") =>
             (exc = "none" /\ error = "success" /\ inflight = <<>>
              /\ Count("TrapContinue") = 1))

C7_Witness == pc = "done" /\ proc = "exited" /\ Len(hits) >= 1

C9_FailureIsFatal ==
    /\ []((error = "fail" \/ exc # "none") =>
             /\ pc = "aborted"
             /\ trace = SubSeq(StepOrder, 1, Len(trace))
             /\ trace[Len(trace)] \in FallibleSteps)
    /\ [][pc = "aborted" => UNCHANGED scriptVars]_vars

C9_Witness ==
    /\ pc = "aborted" /\ error = "fail" /\ trace[Len(trace)] = "ReadMemory"
    /\ proc = "stopped" /\ code_section = "valid"

\* C10: a failed module or section lookup stops the script at that step,
\* before the load address is resolved and before memory is read.
C10_LookupFailureStops ==
    (executable_module = "invalid" \/ code_section = "invalid") =>
        (~Ran("GetLoadAddress") /\ ~Ran("ReadMemory"))

\* C11: when the read of __text is refused or stops short of the section
\* size, the script ends at the read: the search is never run on the
\* partial bytes and no trap breakpoint is created.
C11_ShortReadStops ==
    (Ran("ReadMemory") /\ Len(code_bytes) < SectionSize) =>
        /\ pc = "aborted"
        /\ error = "fail"
        /\ exc = "AssertionError"
        /\ ~Ran("Index") /\ ~Ran("CreateBp")
        /\ offset_from_code_start = NoOffset
        /\ bp = NoBp

C11_Witness ==
    /\ pc = "aborted" /\ Readable /\ unpacked
    /\ code_bytes # <<>> /\ Len(code_bytes) < SectionSize
    /\ Occurs(code_bytes)

\* C12: when the attach fails the script ends there: no gating breakpoint
\* is set, the process is never resumed or halted by the script, no memory
\* is read and no trap breakpoint is created.
C12_AttachFailureStops ==
    (Ran("Attach") /\ ~attached) =>
        /\ pc = "aborted"
        /\ error = "fail"
        /\ exc = "AssertionError"
        /\ init_bp = "none"
        /\ proc \in {"running", "exited"}
        /\ stopReason \in {"none", "exit"}
        /\ executable_module = "unset"
        /\ code_bytes = <<>>
        /\ bp = NoBp
        /\ ~bpCallback

C12_Witness ==
    /\ Ran("Attach") /\ ~attached /\ pc = "aborted"
    /\ proc = "running" /\ unpacked /\ gateCalls > 0

\* C13: a script that ends on an error after the attach has let go of the
\* process and of its breakpoints.
C13_ReleasedOnAbort ==
    (pc = "aborted" /\ Ran("CreateInitBp")) =>
        /\ ~(attached /\ proc # "exited")
        /\ init_bp # "armed"
        /\ bp = NoBp

\* C14: the read of __text happens once, and only after the first
\* Continue() has returned because the gating breakpoint fired.
C14_SnapshotAfterGate ==
    (pc = "l50" \/ Ran("Index")) =>
        /\ Count("ReadMemory") = 1
        /\ initBpHits = 1
        /\ unpacked

\* C15: hits are serialised: at most one callback is due at any time, the
\* target is halted at the trap while it is due, and a new hit happens
\* only when no callback is due.
C15_HitsSerialized ==
    /\ [](Len(inflight) <= 1)
    /\ [](inflight # <<>> => (proc = "stopped" /\ stopReason = "trap"))
    /\ [][Len(hits') > Len(hits) => (inflight = <<>> /\ Len(inflight') = 1)]_vars

C15_Witness ==
    /\ Len(hits) = 2 /\ Len(inflight) = 1
    /\ proc = "stopped" /\ stopReason = "trap"

\* C16: what is printed for a hit is its own EBX value and nothing else,
\* whatever was hit or printed before, and it is a 32-bit unsigned number.
C16_ValueFromThisHitOnly ==
    [][Len(inflight') < Len(inflight) =>
          LET ebx == hits[Len(Completed) + 1]
          IN  /\ stdout' = stdout \o (IF ebx = NoReg THEN <<>> ELSE <<ebx>>)
              /\ \A i \in (Len(stdout) + 1)..Len(stdout') :
                    /\ stdout'[i] >= 0
                    /\ stdout'[i] \div 65536 < 65536]_vars

C16_Witness ==
    /\ Completed = <<12, NoReg, 5>> /\ stdout = <<12, 5>>

\* C17: the gating breakpoint halts the target at most once, and never
\* once the script is in its second Continue().
C17_GateNeverEndsTrapLoop ==
    /\ initBpHits <= 1
    /\ pc \in {"l64w", "done"} => stopReason # "init_bp"

\* C18: the script looks up, reads and searches the code and sets the trap
\* breakpoint only while the target is not running, and succeeds in reading
\* and installing only while it is halted.
C18_InstrumentsWhileHalted ==
    /\ [](pc \in {"l43", "l44", "l45", "l46", "l50", "l53", "l54", "l64"}
             => proc \in {"stopped", "exited"})
    /\ [](pc \in {"l50", "l53", "l54", "l64"} => proc = "stopped")
    /\ [][(code_bytes' # code_bytes \/ bp' # bp \/ bpCallback' # bpCallback
           \/ offset_from_code_start' # offset_from_code_start)
             => (proc = "stopped" /\ proc' = "stopped")]_vars

C18_Witness ==
    /\ pc = "l54" /\ bp # NoBp /\ proc = "stopped" /\ stopReason = "init_bp"

\* C19: the callback changes nothing of the target or of the breakpoints,
\* and the trap breakpoint, once created, stays at the address found.
C19_CallbackIsReadOnly ==
    /\ [][Len(inflight') < Len(inflight) =>
             UNCHANGED <<bp, bpCallback, init_bp, image, unpacked, hits,
                         code_bytes, code_start, offset_from_code_start>>]_vars
    /\ [][bp # NoBp => (bp' = bp /\ (bpCallback => bpCallback'))]_vars
    /\ [](bp # NoBp => bp = CodeBase + offset_from_code_start)

C19_Witness ==
    /\ Len(Completed) >= 2 /\ hits[1] # NoReg /\ pc = "l64w"
    /\ bpCallback /\ bp = CodeBase + offset_from_code_start
    /\ offset_from_code_start > 0

====
